---- MODULE Spec2Model ----
(***************************************************************************)
(* Model of the offline persistence and synchronisation core of the        *)
(* workout tracker: class OfflineManager of src/sw.js.                     *)
(*                                                                         *)
(* One logical thread runs asynchronous tasks; a task is suspended exactly *)
(* at its awaits.  An IndexedDB request is linearised at the moment the    *)
(* code creates its transaction (transactions over the same store run in   *)
(* creation order), so a store operation takes effect in the step that     *)
(* calls it.  A fetch stays in flight until a separate step delivers its   *)
(* outcome.                                                                *)
(***************************************************************************)
EXTENDS Integers, Sequences, FiniteSets, TLC

\* ---------------------------------------------------------------- bounds
MaxSaves == 2      \* saveWorkout calls; the s-th call carries payload s
MaxPasses == 2     \* invocations of syncPendingWorkouts that may be suspended at once
MaxFaults == 1     \* requests the local store fails while it is open
MaxList == 2       \* length of an exercise list given to cacheExercises

Saves == 1..MaxSaves
Passes == 1..MaxPasses

VARIABLES
    navOnline,    \* navigator.onLine: the platform's connectivity status
    isOnline,     \* this.isOnline
    dbState,      \* "opening" | "open" | "failed"; this.db is null unless "open"
    timer,        \* the startup setTimeout of init: "none" | "armed" | "fired"
    workouts,     \* object store 'workouts': record id = index in the sequence
    accepted,     \* backend: per payload, the number of submissions answered ok
    saves,        \* one saveWorkout task per payload
    passes,       \* the suspended invocations of syncPendingWorkouts
    syncStatus,   \* the message last given to showSyncStatus, with its counts
    lastSync,     \* how the latest call of syncPendingWorkouts began
    faults,       \* store requests failed so far while the store was open
    round,        \* retry scenario only: the passes triggered so far
    exerciseCache,\* object store 'exerciseCache': the set of its entries
    ret,          \* direct store calls only: the latest call and what it returned
    app           \* app.js: the screen shown and the state of checkAuthentication

vars == <<navOnline, isOnline, dbState, timer, workouts, accepted, saves,
          passes, syncStatus, lastSync, faults, round, exerciseCache, ret, app>>

\* ------------------------------------------------------- the local store
\* A request on the store fails when this.db is null (the executor throws
\* and the promise rejects) or when IndexedDB reports request.error.
StoreFails(f) == dbState # "open" \/ f

\* The error outcomes the next request may take, n requests of the current
\* step having failed already.
FaultChoices(n) ==
    IF dbState = "open" /\ faults + n < MaxFaults THEN {FALSE, TRUE} ELSE {FALSE}

CountFault(f) == IF dbState = "open" /\ f THEN 1 ELSE 0

Ids(w) == 1..Len(w)

\* Mutant: the lookup asks the index for synced = true.
getPendingWorkouts_synced(w) == SelectSeq([i \in 1..Len(w) |-> i], LAMBDA i : w[i].synced)

\* Mutant: the lookup reads the whole store, without the key range.
getPendingWorkouts_all(w) == [i \in 1..Len(w) |-> i]

\* index 'synced', getAll(IDBKeyRange.only(false)): the ids of the unsynced
\* records, in primary-key order.  This is the lookup the code intends; that
\* IndexedDB takes no boolean as an index key is a property of the platform
\* and is not modelled.
getPendingWorkouts(w) == SelectSeq([i \in 1..Len(w) |-> i], LAMBDA i : ~w[i].synced)

\* store.add(workout) with an auto-incremented key.
saveToIndexedDB(w, workout) == Append(w, workout)

\* Mutant: the put goes over every record of the store.
markAsSynced_all(w, id) == [i \in 1..Len(w) |-> [w[i] EXCEPT !.synced = TRUE]]

\* Mutant: the put is made without looking at what get returned, so an
\* absent id creates a record.
markAsSynced_upsert(w, id) ==
    IF id \in Ids(w) THEN [w EXCEPT ![id].synced = TRUE]
    ELSE Append(w, [payload |-> id, synced |-> TRUE])

\* store.get(id), then store.put with synced = true; resolves when id is absent.
markAsSynced(w, id) == IF id \in Ids(w) THEN [w EXCEPT ![id].synced = TRUE] ELSE w

\* --------------------------------------------------------------- records
NoSave == [pc |-> "idle", online |-> FALSE, net |-> FALSE, resp |-> "none", adds |-> 0,
           storeErr |-> FALSE, outcome |-> "none"]

NoPass == [pc |-> "idle", pending |-> <<>>, i |-> 0, synced |-> 0, failed |-> 0,
           oks |-> {}, startEmpty |-> FALSE]

\* No direct call of a store operation has been made.
NoCall == [op |-> "none", arg |-> <<>>, status |-> "none", value |-> <<>>]

\* app.js before DOMContentLoaded: no screen chosen, no submit handler.
NoApp == [screen |-> "none", handler |-> FALSE, pc |-> "none", net |-> FALSE,
          answer |-> "none"]

FreePasses == {k \in Passes : passes[k].pc = "idle"}

FreePass == CHOOSE k \in FreePasses : \A j \in FreePasses : k <= j

\* The payload a save task or a pass has a submission in flight for.
PassPayload(k) == workouts[passes[k].pending[passes[k].i]].payload

Init ==
    /\ navOnline \in BOOLEAN
    /\ isOnline = navOnline
    /\ dbState = "opening"
    /\ timer = "none"
    /\ workouts = <<>>
    /\ accepted = [s \in Saves |-> 0]
    /\ saves = [s \in Saves |-> NoSave]
    /\ passes = [k \in Passes |-> NoPass]
    /\ syncStatus = [kind |-> "none", synced |-> 0, failed |-> 0]
    /\ lastSync = "none"
    /\ faults = 0
    /\ round = 0
    /\ exerciseCache = {}
    /\ ret = NoCall
    /\ app = NoApp

\* ------------------------------------------------------ init and triggers
\* Mutant: the connectivity check is missing.
syncPendingWorkouts_nocheck(on) ==
    /\ FreePasses # {}
    /\ lastSync' = "started"
    /\ faults' = faults
    /\ passes' = [passes EXCEPT ![FreePass] =
          [NoPass EXCEPT
             !.pc = "read",
             !.pending = getPendingWorkouts(workouts),
             !.startEmpty = \A i \in Ids(workouts) : workouts[i].synced]]

\* syncPendingWorkouts up to its first await: the connectivity check and the
\* read of the unsynced records.  `on` is this.isOnline as the call sees it.
syncPendingWorkouts(on) ==
    IF ~on
    THEN /\ lastSync' = "offline"
         /\ UNCHANGED <<passes, faults>>
    ELSE /\ FreePasses # {}
         /\ \E f \in FaultChoices(0) :
              /\ faults' = faults + CountFault(f)
              /\ IF StoreFails(f)
                 THEN /\ lastSync' = "rejected"
                      /\ UNCHANGED passes
                 ELSE /\ lastSync' = "started"
                      /\ passes' = [passes EXCEPT ![FreePass] =
                            [NoPass EXCEPT
                               !.pc = "read",
                               !.pending = getPendingWorkouts(workouts),
                               !.startEmpty = \A i \in Ids(workouts) : workouts[i].synced]]

\* init after openDB resolved: the listeners are registered and, when online,
\* the startup timer is armed.
OpenDBSuccess ==
    /\ dbState = "opening"
    /\ dbState' = "open"
    /\ timer' = IF isOnline THEN "armed" ELSE "none"
    /\ UNCHANGED <<navOnline, isOnline, workouts, accepted, saves, passes,
                   syncStatus, lastSync, faults,
                   round, exerciseCache, ret, app>>

\* openDB rejected: init stops there, this.db stays null, no listener exists.
OpenDBError ==
    /\ dbState = "opening"
    /\ dbState' = "failed"
    /\ UNCHANGED <<navOnline, isOnline, timer, workouts, accepted, saves, passes,
                   syncStatus, lastSync, faults,
                   round, exerciseCache, ret, app>>

\* The platform's 'online' event; the handler exists once init registered it.
OnlineEvent ==
    /\ navOnline' = TRUE
    /\ IF dbState = "open"
       THEN /\ isOnline' = TRUE
            /\ syncPendingWorkouts(TRUE)
       ELSE UNCHANGED <<isOnline, passes, lastSync, faults>>
    /\ UNCHANGED <<dbState, timer, workouts, accepted, saves, syncStatus,
                   round, exerciseCache, ret, app>>

\* The platform's 'offline' event.
OfflineEvent ==
    /\ navOnline' = FALSE
    /\ isOnline' = IF dbState = "open" THEN FALSE ELSE isOnline
    /\ UNCHANGED <<dbState, timer, workouts, accepted, saves, passes,
                   syncStatus, lastSync, faults,
                   round, exerciseCache, ret, app>>

\* Mutant: the message handler starts the pass whatever the flag says.
SyncMessage_force ==
    /\ dbState = "open"
    /\ syncPendingWorkouts(TRUE)
    /\ UNCHANGED <<navOnline, isOnline, dbState, timer, workouts, accepted, saves,
                   syncStatus, round, exerciseCache, ret, app>>

\* A SYNC_WORKOUTS message posted by the service worker.
SyncMessage ==
    /\ dbState = "open"
    /\ syncPendingWorkouts(isOnline)
    /\ UNCHANGED <<navOnline, isOnline, dbState, timer, workouts, accepted, saves,
                   syncStatus,
                   round, exerciseCache, ret, app>>

\* The startup timer of init fires.
TimerFire ==
    /\ timer = "armed"
    /\ timer' = "fired"
    /\ syncPendingWorkouts(isOnline)
    /\ UNCHANGED <<navOnline, isOnline, dbState, workouts, accepted, saves,
                   syncStatus,
                   round, exerciseCache, ret, app>>

\* ------------------------------------------------------------- sync pass
Status(kind, s, f) == [kind |-> kind, synced |-> s, failed |-> f]

\* The pass resumes with the list it read.
SyncResume(k) ==
    /\ passes[k].pc = "read"
    /\ IF Len(passes[k].pending) = 0
       THEN /\ syncStatus' = Status("allSynced", 0, 0)
            /\ passes' = [passes EXCEPT ![k] = NoPass]
       ELSE /\ syncStatus' = Status("syncing", 0, 0)
            /\ passes' = [passes EXCEPT ![k].pc = "loop", ![k].i = 1]
    /\ UNCHANGED <<navOnline, isOnline, dbState, timer, workouts, accepted, saves,
                   lastSync, faults,
                   round, exerciseCache, ret, app>>

\* Mutant: the submission is not awaited, so the loop goes on to the next
\* record with the request of the previous one still in flight.
SyncNext_noawait(k) ==
    /\ passes[k].pc = "loop"
    /\ passes[k].i <= Len(passes[k].pending)
    /\ passes' = [passes EXCEPT
          ![k].pc = "sending",
          ![k].i = IF @ < Len(passes[k].pending) THEN @ + 1 ELSE @]
    /\ UNCHANGED <<navOnline, isOnline, dbState, timer, workouts, accepted, saves,
                   syncStatus, lastSync, faults, round, exerciseCache, ret, app>>

\* The loop takes the next record of the list and submits it.
SyncNext(k) ==
    /\ passes[k].pc = "loop"
    /\ passes[k].i <= Len(passes[k].pending)
    /\ passes' = [passes EXCEPT ![k].pc = "sending"]
    /\ UNCHANGED <<navOnline, isOnline, dbState, timer, workouts, accepted, saves,
                   syncStatus, lastSync, faults,
                   round, exerciseCache, ret, app>>

\* sendToBackend returned: markAsSynced, then synced++; a rejection of
\* markAsSynced lands in the catch and counts as a failure.
SyncSendOk(k) ==
    /\ passes[k].pc = "sending"
    /\ navOnline
    /\ accepted' = [accepted EXCEPT ![PassPayload(k)] = @ + 1]
    /\ \E f \in FaultChoices(0) :
         /\ faults' = faults + CountFault(f)
         /\ IF StoreFails(f)
            THEN /\ UNCHANGED workouts
                 /\ passes' = [passes EXCEPT
                       ![k].pc = "loop", ![k].i = @ + 1, ![k].failed = @ + 1,
                       ![k].oks = @ \cup {passes[k].pending[passes[k].i]}]
            ELSE /\ workouts' = markAsSynced(workouts, passes[k].pending[passes[k].i])
                 /\ passes' = [passes EXCEPT
                       ![k].pc = "loop", ![k].i = @ + 1, ![k].synced = @ + 1,
                       ![k].oks = @ \cup {passes[k].pending[passes[k].i]}]
    /\ UNCHANGED <<navOnline, isOnline, dbState, timer, saves, syncStatus, lastSync,
                   round, exerciseCache, ret, app>>

\* Mutant: a failed submission is tried again at once, within the same pass.
SyncSendFail_retry(k) ==
    /\ passes[k].pc = "sending"
    /\ passes' = [passes EXCEPT ![k].pc = "loop", ![k].failed = @ + 1]
    /\ UNCHANGED <<navOnline, isOnline, dbState, timer, workouts, accepted, saves,
                   syncStatus, lastSync, faults, round, exerciseCache, ret, app>>

\* sendToBackend threw (a status that is not ok, or a transport failure).
SyncSendFail(k) ==
    /\ passes[k].pc = "sending"
    /\ passes' = [passes EXCEPT ![k].pc = "loop", ![k].i = @ + 1, ![k].failed = @ + 1]
    /\ UNCHANGED <<navOnline, isOnline, dbState, timer, workouts, accepted, saves,
                   syncStatus, lastSync, faults,
                   round, exerciseCache, ret, app>>

\* The list is exhausted: the summary.
SyncSummary(k) ==
    /\ passes[k].pc = "loop"
    /\ passes[k].i > Len(passes[k].pending)
    /\ syncStatus' = IF passes[k].failed = 0
                     THEN Status("all", passes[k].synced, 0)
                     ELSE Status("partial", passes[k].synced, passes[k].failed)
    /\ passes' = [passes EXCEPT ![k] = NoPass]
    /\ UNCHANGED <<navOnline, isOnline, dbState, timer, workouts, accepted, saves,
                   lastSync, faults,
                   round, exerciseCache, ret, app>>

\* ------------------------------------------------------------ saveWorkout
\* Mutant: the record is built with synced = true on every path.
Workout_synced(s, synced) == [payload |-> s, synced |-> TRUE]

Workout(s, synced) == [payload |-> s, synced |-> synced]

\* The task ends: resp is the submission's outcome, adds the inserts tried,
\* storeErr whether an insert was rejected, outcome what the caller gets.
Done(s, resp, adds, storeErr, outcome) ==
    [saves EXCEPT ![s] = [@ EXCEPT !.pc = "done", !.resp = resp, !.adds = adds,
                                   !.storeErr = storeErr, !.outcome = outcome]]

\* Mutant: the record is inserted before the submission is issued, and a
\* rejected insert ends the call.
SaveCall_storeFirst(s) ==
    /\ saves[s].pc = "idle"
    /\ \A r \in 1..(s - 1) : saves[r].pc # "idle"
    /\ \E f \in FaultChoices(0) :
         /\ faults' = faults + CountFault(f)
         /\ IF StoreFails(f)
            THEN /\ UNCHANGED workouts
                 /\ saves' = Done(s, "none", 1, TRUE, "error")
            ELSE /\ workouts' = saveToIndexedDB(workouts, Workout(s, FALSE))
                 /\ saves' = IF isOnline
                             THEN [saves EXCEPT ![s].pc = "sending", ![s].online = TRUE,
                                                ![s].net = TRUE]
                             ELSE Done(s, "none", 1, FALSE, "offline")
    /\ UNCHANGED <<navOnline, isOnline, dbState, timer, accepted, passes,
                   syncStatus, lastSync, round, exerciseCache, ret, app>>

\* saveWorkout up to its first await.
SaveCall(s) ==
    /\ saves[s].pc = "idle"
    /\ \A r \in 1..(s - 1) : saves[r].pc # "idle"
    /\ IF isOnline
       THEN /\ saves' = [saves EXCEPT ![s].pc = "sending", ![s].online = TRUE,
                                      ![s].net = TRUE]
            /\ UNCHANGED <<workouts, faults>>
       ELSE \E f \in FaultChoices(0) :
              /\ faults' = faults + CountFault(f)
              /\ IF StoreFails(f)
                 THEN /\ UNCHANGED workouts
                      /\ saves' = Done(s, "none", 1, TRUE, "error")
                 ELSE /\ workouts' = saveToIndexedDB(workouts, Workout(s, FALSE))
                      /\ saves' = Done(s, "none", 1, FALSE, "offline")
    /\ UNCHANGED <<navOnline, isOnline, dbState, timer, accepted, passes,
                   syncStatus, lastSync,
                   round, exerciseCache, ret, app>>

\* sendToBackend returned inside the try: synced = true, then the insert; a
\* rejected insert lands in the catch, which inserts again.
SaveSendOk(s) ==
    /\ saves[s].pc = "sending"
    /\ navOnline
    /\ accepted' = [accepted EXCEPT ![s] = @ + 1]
    /\ \E f1 \in FaultChoices(0) :
         IF ~StoreFails(f1)
         THEN /\ faults' = faults
              /\ workouts' = saveToIndexedDB(workouts, Workout(s, TRUE))
              /\ saves' = Done(s, "ok", 1, FALSE, "synced")
         ELSE \E f2 \in FaultChoices(CountFault(f1)) :
                /\ faults' = faults + CountFault(f1) + CountFault(f2)
                /\ IF StoreFails(f2)
                   THEN /\ UNCHANGED workouts
                        /\ saves' = Done(s, "ok", 2, TRUE, "error")
                   ELSE /\ workouts' = saveToIndexedDB(workouts, Workout(s, TRUE))
                        /\ saves' = Done(s, "ok", 2, TRUE, "local")
    /\ UNCHANGED <<navOnline, isOnline, dbState, timer, passes, syncStatus, lastSync,
                   round, exerciseCache, ret, app>>

\* Mutant: the catch rethrows instead of inserting.
SaveSendFail_rethrow(s) ==
    /\ saves[s].pc = "sending"
    /\ saves' = Done(s, "fail", 0, FALSE, "error")
    /\ UNCHANGED <<navOnline, isOnline, dbState, timer, workouts, accepted, passes,
                   syncStatus, lastSync, faults, round, exerciseCache, ret, app>>

\* sendToBackend threw: the catch inserts the record, still synced = false.
SaveSendFail(s) ==
    /\ saves[s].pc = "sending"
    /\ \E f \in FaultChoices(0) :
         /\ faults' = faults + CountFault(f)
         /\ IF StoreFails(f)
            THEN /\ UNCHANGED workouts
                 /\ saves' = Done(s, "fail", 1, TRUE, "error")
            ELSE /\ workouts' = saveToIndexedDB(workouts, Workout(s, FALSE))
                 /\ saves' = Done(s, "fail", 1, FALSE, "local")
    /\ UNCHANGED <<navOnline, isOnline, dbState, timer, accepted, passes,
                   syncStatus, lastSync,
                   round, exerciseCache, ret, app>>

Next ==
    \/ OpenDBSuccess
    \/ OpenDBError
    \/ OnlineEvent
    \/ OfflineEvent
    \/ SyncMessage
    \/ TimerFire
    \/ \E k \in Passes : SyncResume(k)
    \/ \E k \in Passes : SyncNext(k)
    \/ \E k \in Passes : SyncSendOk(k)
    \/ \E k \in Passes : SyncSendFail(k)
    \/ \E k \in Passes : SyncSummary(k)
    \/ \E s \in Saves : SaveCall(s)
    \/ \E s \in Saves : SaveSendOk(s)
    \/ \E s \in Saves : SaveSendFail(s)

Spec == Init /\ [][Next]_vars

\* ------------------------------------------------- retry scenario (C8)
AllIdle == \A k \in Passes : passes[k].pc = "idle"

\* The store after n saves made earlier; flags[s] is record s's synced flag.
StoreOf(n, flags) == [i \in 1..n |-> Workout(i, flags[i])]

\* A session that starts online over a store left by earlier saves.
InitRetry ==
    /\ navOnline = TRUE
    /\ isOnline = TRUE
    /\ dbState = "open"
    /\ timer = "fired"
    /\ \E n \in 0..MaxSaves : \E flags \in [1..n -> BOOLEAN] :
         /\ workouts = StoreOf(n, flags)
         /\ accepted = [s \in Saves |-> IF s <= n /\ flags[s] THEN 1 ELSE 0]
         /\ saves = [s \in Saves |->
               IF s > n THEN NoSave
               ELSE IF flags[s]
                    THEN [NoSave EXCEPT !.pc = "done", !.online = TRUE, !.net = TRUE,
                                        !.resp = "ok", !.adds = 1, !.outcome = "synced"]
                    ELSE [NoSave EXCEPT !.pc = "done", !.adds = 1, !.outcome = "offline"]]
    /\ passes = [k \in Passes |-> NoPass]
    /\ syncStatus = [kind |-> "none", synced |-> 0, failed |-> 0]
    /\ lastSync = "none"
    /\ faults = 0
    /\ round = 0
    /\ exerciseCache = {}
    /\ ret = NoCall
    /\ app = NoApp

\* A trigger starts the next of the two passes once the previous one is over.
RetryPass ==
    /\ AllIdle
    /\ round < 2
    /\ round' = round + 1
    /\ syncPendingWorkouts(isOnline)
    /\ UNCHANGED <<navOnline, isOnline, dbState, timer, workouts, accepted, saves,
                   syncStatus, exerciseCache, ret, app>>

\* The backend fails every submission of the first pass ...
RetrySendFail(k) == round = 1 /\ SyncSendFail(k)

\* ... and accepts every submission of the second.
RetrySendOk(k) == round = 2 /\ SyncSendOk(k)

NextRetry ==
    \/ RetryPass
    \/ \E k \in Passes : SyncResume(k)
    \/ \E k \in Passes : SyncNext(k)
    \/ \E k \in Passes : RetrySendFail(k)
    \/ \E k \in Passes : RetrySendOk(k)
    \/ \E k \in Passes : SyncSummary(k)

SpecRetry == InitRetry /\ [][NextRetry]_vars

\* ------------------------------------------------- the exercise catalog
ExerciseNames == {"squat", "press"}

\* The exercise lists a refresh may deliver.
Lists == UNION {[1..n -> ExerciseNames] : n \in 0..MaxList}

\* The object cacheExercises adds (keyPath 'id'); its timestamp is never read.
CatalogEntry(L) == [id |-> "exercises", data |-> L]

\* Mutant: the new list is appended to the cached one instead of replacing it.
cacheExercises_merge(c, L) ==
    IF c = {} THEN {CatalogEntry(L)}
    ELSE {CatalogEntry((CHOOSE e \in c : TRUE).data \o L)}

\* store.clear(), then store.add(entry), in one readwrite transaction.
cacheExercises(c, L) == ({e \in c : FALSE}) \cup {CatalogEntry(L)}

\* store.get('exercises'): the data of the entry, or [] when there is none.
getCachedExercises(c) ==
    IF \E e \in c : e.id = "exercises"
    THEN (CHOOSE e \in c : e.id = "exercises").data
    ELSE <<>>

Ret(op, arg, status, value) == [op |-> op, arg |-> arg, status |-> status, value |-> value]

\* A call of cacheExercises(L).  With this.db null the first line throws and
\* the call rejects.  Otherwise the two awaits are given IDBRequest objects,
\* which are no thenables: the call resolves without waiting for the requests
\* and without an error handler on them.  The transaction then commits, or a
\* failing request aborts it, which also undoes the clear.
CacheExercises(L) ==
    /\ \E f \in FaultChoices(0) :
         /\ faults' = faults + CountFault(f)
         /\ IF dbState # "open"
            THEN /\ ret' = Ret("cacheExercises", L, "rejected", <<>>)
                 /\ UNCHANGED exerciseCache
            ELSE /\ ret' = Ret("cacheExercises", L, "resolved", <<>>)
                 /\ exerciseCache' = IF f THEN exerciseCache
                                     ELSE cacheExercises(exerciseCache, L)
    /\ UNCHANGED <<navOnline, isOnline, dbState, timer, workouts, accepted, saves,
                   passes, syncStatus, lastSync, round, app>>

\* A call of getCachedExercises().
GetCachedExercises ==
    /\ \E f \in FaultChoices(0) :
         /\ faults' = faults + CountFault(f)
         /\ ret' = IF StoreFails(f)
                   THEN Ret("getCachedExercises", <<>>, "rejected", <<>>)
                   ELSE Ret("getCachedExercises", <<>>, "resolved",
                            getCachedExercises(exerciseCache))
    /\ UNCHANGED <<navOnline, isOnline, dbState, timer, workouts, accepted, saves,
                   passes, syncStatus, lastSync, round, exerciseCache, app>>

\* A session over the catalog store as an earlier session left it.
InitCatalog ==
    /\ navOnline \in BOOLEAN
    /\ isOnline = navOnline
    /\ dbState = "opening"
    /\ timer = "none"
    /\ workouts = <<>>
    /\ accepted = [s \in Saves |-> 0]
    /\ saves = [s \in Saves |-> NoSave]
    /\ passes = [k \in Passes |-> NoPass]
    /\ syncStatus = [kind |-> "none", synced |-> 0, failed |-> 0]
    /\ lastSync = "none"
    /\ faults = 0
    /\ round = 0
    /\ exerciseCache \in {{}} \cup {{CatalogEntry(L)} : L \in Lists}
    /\ ret = NoCall
    /\ app = NoApp

NextCatalog ==
    \/ OpenDBSuccess
    \/ OpenDBError
    \/ \E L \in Lists : CacheExercises(L)
    \/ GetCachedExercises

SpecCatalog == InitCatalog /\ [][NextCatalog]_vars

\* --------------------------------------------- markAsSynced called alone
\* The ids a caller may name: those of the store and one past any of them.
CallIds == 1..(MaxSaves + 1)

\* A call of markAsSynced(id): it rejects when this.db is null or a request
\* reports an error, and otherwise resolves, the id being present or not.
MarkAsSynced(id) ==
    /\ \E f \in FaultChoices(0) :
         /\ faults' = faults + CountFault(f)
         /\ IF StoreFails(f)
            THEN /\ ret' = Ret("markAsSynced", id, "rejected", <<>>)
                 /\ UNCHANGED workouts
            ELSE /\ ret' = Ret("markAsSynced", id, "resolved", <<>>)
                 /\ workouts' = markAsSynced(workouts, id)
    /\ UNCHANGED <<navOnline, isOnline, dbState, timer, accepted, saves, passes,
                   syncStatus, lastSync, round, exerciseCache, app>>

\* A session over a store left by earlier saves, the store still opening.
InitMark ==
    /\ navOnline \in BOOLEAN
    /\ isOnline = navOnline
    /\ dbState = "opening"
    /\ timer = "none"
    /\ \E n \in 0..MaxSaves : \E flags \in [1..n -> BOOLEAN] :
         /\ workouts = StoreOf(n, flags)
         /\ accepted = [s \in Saves |-> IF s <= n /\ flags[s] THEN 1 ELSE 0]
         /\ saves = [s \in Saves |->
               IF s > n THEN NoSave
               ELSE IF flags[s]
                    THEN [NoSave EXCEPT !.pc = "done", !.online = TRUE, !.net = TRUE,
                                        !.resp = "ok", !.adds = 1, !.outcome = "synced"]
                    ELSE [NoSave EXCEPT !.pc = "done", !.adds = 1, !.outcome = "offline"]]
    /\ passes = [k \in Passes |-> NoPass]
    /\ syncStatus = [kind |-> "none", synced |-> 0, failed |-> 0]
    /\ lastSync = "none"
    /\ faults = 0
    /\ round = 0
    /\ exerciseCache = {}
    /\ ret = NoCall
    /\ app = NoApp

NextMark ==
    \/ OpenDBSuccess
    \/ OpenDBError
    \/ \E id \in CallIds : MarkAsSynced(id)

SpecMark == InitMark /\ [][NextMark]_vars

\* --------------------------------------------- app.js: authentication
\* What the checkUserAccess call may end in: approved = true, approved =
\* false, or an error (a status that is not ok, or a transport failure).
Answers == {"approved", "refused", "error"}

\* The state of the page once a call of checkAuthentication is over.
Shown(net, answer) ==
    IF answer = "approved"
    THEN [screen |-> "mainAppScreen", handler |-> TRUE, pc |-> "done", net |-> net,
          answer |-> answer]
    ELSE [screen |-> "accessDeniedScreen", handler |-> FALSE, pc |-> "done", net |-> net,
          answer |-> answer]

\* Mutant: a failed or impossible check lets the user in.
checkAuthentication_lenient(on) ==
    IF on THEN [NoApp EXCEPT !.pc = "fetching", !.net = TRUE]
    ELSE [screen |-> "mainAppScreen", handler |-> TRUE, pc |-> "done", net |-> FALSE,
          answer |-> "offline"]

\* checkAuthentication up to its first suspension, run by the DOMContentLoaded
\* handler right after the constructor: apiCall throws at once when the flag
\* is offline, and otherwise issues the request.
checkAuthentication(on) ==
    IF on THEN [NoApp EXCEPT !.pc = "fetching", !.net = TRUE]
    ELSE Shown(FALSE, "offline")

\* The page after its DOMContentLoaded handler has run.
InitAuth ==
    /\ navOnline \in BOOLEAN
    /\ isOnline = navOnline
    /\ dbState = "opening"
    /\ timer = "none"
    /\ workouts = <<>>
    /\ accepted = [s \in Saves |-> 0]
    /\ saves = [s \in Saves |-> NoSave]
    /\ passes = [k \in Passes |-> NoPass]
    /\ syncStatus = [kind |-> "none", synced |-> 0, failed |-> 0]
    /\ lastSync = "none"
    /\ faults = 0
    /\ round = 0
    /\ exerciseCache = {}
    /\ ret = NoCall
    /\ app = checkAuthentication(isOnline)

\* The checkUserAccess request settles and checkAuthentication resumes.
AuthResponse(a) ==
    /\ app.pc = "fetching"
    /\ a = "approved" => navOnline
    /\ app' = Shown(TRUE, a)
    /\ UNCHANGED <<navOnline, isOnline, dbState, timer, workouts, accepted, saves,
                   passes, syncStatus, lastSync, faults, round, exerciseCache, ret>>

\* The user submits the form: the handler registered by initializeApp calls
\* saveWorkout.
HandleFormSubmit(s) ==
    /\ app.handler
    /\ app.screen = "mainAppScreen"
    /\ SaveCall(s)

NextAuth ==
    \/ \E a \in Answers : AuthResponse(a)
    \/ \E s \in Saves : HandleFormSubmit(s)
    \/ \E s \in Saves : SaveSendOk(s)
    \/ \E s \in Saves : SaveSendFail(s)
    \/ OpenDBSuccess
    \/ OpenDBError
    \/ OnlineEvent
    \/ OfflineEvent
    \/ SyncMessage
    \/ TimerFire
    \/ \E k \in Passes : SyncResume(k)
    \/ \E k \in Passes : SyncNext(k)
    \/ \E k \in Passes : SyncSendOk(k)
    \/ \E k \in Passes : SyncSendFail(k)
    \/ \E k \in Passes : SyncSummary(k)

SpecAuth == InitAuth /\ [][NextAuth]_vars

TypeOK ==
    /\ navOnline \in BOOLEAN /\ isOnline \in BOOLEAN
    /\ dbState \in {"opening", "open", "failed"}
    /\ timer \in {"none", "armed", "fired"}
    /\ \A i \in Ids(workouts) : workouts[i].payload \in Saves /\ workouts[i].synced \in BOOLEAN
    /\ \A s \in Saves : saves[s].pc \in {"idle", "sending", "done"}
    /\ \A k \in Passes : passes[k].pc \in {"idle", "read", "loop", "sending"}
    /\ faults \in 0..MaxFaults

\* ------------------------------------------------------------ properties
\* The payloads of the records getPendingWorkouts returns.
PendingPayloads(w) == {w[getPendingWorkouts(w)[n]].payload : n \in 1..Len(getPendingWorkouts(w))}

C2_OnlineAcceptedSaveReportsSynced ==
    [][\A s \in Saves :
         (saves[s].pc = "sending" /\ saves'[s].resp = "ok"
            /\ saves'[s].outcome # "error") =>
            /\ saves'[s].outcome = "synced"
            /\ workouts' = Append(workouts, [payload |-> s, synced |-> TRUE])
            /\ s \notin PendingPayloads(workouts')]_vars

\* C3: when the submission of an online save fails, the caller gets an error
\* only if a store request failed; when the insert succeeds the record is
\* stored with synced = false and the outcome is 'saved locally'.
C3_SubmissionFailureDegrades ==
    [][\A s \in Saves :
         (saves[s].pc = "sending" /\ saves'[s].resp = "fail") =>
            /\ saves'[s].pc = "done"
            /\ saves'[s].outcome \in {"local", "error"}
            /\ saves'[s].outcome = "error" =>
                 (workouts' = workouts /\ (dbState # "open" \/ faults' > faults))
            /\ Len(workouts') > Len(workouts) =>
                 /\ saves'[s].outcome = "local"
                 /\ workouts' = Append(workouts, [payload |-> s, synced |-> FALSE])]_vars

C3_Witness ==
    \E s \in Saves :
        /\ saves[s].resp = "fail"
        /\ saves[s].outcome = "local"
        /\ \E i \in Ids(workouts) : workouts[i] = [payload |-> s, synced |-> FALSE]

\* C4: a save during which an insert into the local store was rejected ends
\* in an error for the caller, on every branch.
C4_StoreErrorPropagates ==
    \A s \in Saves : saves[s].storeErr => saves[s].outcome = "error"

\* C5: syncPendingWorkouts called while isOnline is false changes nothing: no
\* store request, no pass, no submission, no change of a record.
C5_OfflineSyncIsNoOp ==
    [][((SyncMessage \/ TimerFire) /\ ~isOnline) =>
          UNCHANGED <<workouts, accepted, passes, saves, faults, syncStatus>>]_vars

C5_Witness == lastSync = "offline" /\ ~isOnline /\ dbState = "open"

\* C6: a pass that starts when the store holds no unsynced record never
\* submits anything and never changes the store.
C6_EmptyPassDoesNothing ==
    [][\A k \in Passes :
         ((passes[k].startEmpty \/ passes'[k].startEmpty) /\ passes'[k] # passes[k]) =>
            /\ workouts' = workouts
            /\ accepted' = accepted
            /\ passes'[k].pc \in {"read", "idle"}
            /\ passes'[k].pending = <<>>]_vars

C6_Witness ==
    /\ syncStatus.kind = "allSynced"
    /\ \E i \in Ids(workouts) : workouts[i].synced

\* C7: when a pass has gone through its list, the records it marked synced
\* are exactly those whose submission succeeded, the others are unsynced,
\* and its counters are synced = successes, failed = failures, their sum
\* the length of the list.
C7_PartialFailureIsolation ==
    \A k \in Passes :
        (passes[k].pc = "loop" /\ passes[k].i > Len(passes[k].pending)) =>
            /\ passes[k].synced = Cardinality(passes[k].oks)
            /\ passes[k].failed = Len(passes[k].pending) - Cardinality(passes[k].oks)
            /\ passes[k].synced + passes[k].failed = Len(passes[k].pending)
            /\ \A n \in 1..Len(passes[k].pending) :
                 workouts[passes[k].pending[n]].synced <=> passes[k].pending[n] \in passes[k].oks

\* The records that were pending when the retry scenario began.
RetryN == Cardinality({s \in Saves : saves[s].outcome = "offline"})

\* C8: N pending records, a first pass whose submissions all fail, a second
\* whose submissions are all accepted, each pass having read its list: the
\* first pass reports N failures, and after the second no record is pending,
\* N submissions were accepted and the pass reports N synced (2N attempts,
\* N successes).
C8_RetryConvergence ==
    /\ (round = 1 /\ AllIdle /\ lastSync = "started") =>
          syncStatus = IF RetryN = 0 THEN Status("allSynced", 0, 0)
                       ELSE Status("partial", 0, RetryN)
    /\ (round = 2 /\ AllIdle /\ lastSync = "started") =>
          /\ getPendingWorkouts(workouts) = <<>>
          /\ \A s \in Saves : saves[s].outcome = "offline" => accepted[s] = 1
          /\ syncStatus = IF RetryN = 0 THEN Status("allSynced", 0, 0)
                          ELSE Status("all", RetryN, 0)

\* C9: at most one invocation of syncPendingWorkouts is between its start
\* and its summary.
C9_AtMostOnePassActive ==
    Cardinality({k \in Passes : passes[k].pc # "idle"}) <= 1

\* C10: no two submissions of one record are in flight together, and no
\* submission is issued for a record the backend has already accepted.
C10_NoDuplicateSubmission ==
    /\ \A k, j \in Passes :
         (k # j /\ passes[k].pc = "sending" /\ passes[j].pc = "sending") =>
             PassPayload(k) # PassPayload(j)
    /\ \A k \in Passes : passes[k].pc = "sending" => accepted[PassPayload(k)] = 0
    /\ \A s \in Saves : saves[s].pc = "sending" => accepted[s] = 0

\* C11: an 'online' event starts a pass only when it is an offline-to-online
\* transition of the flag; an 'online' event delivered while the flag is
\* already online (a repeated delivery for the same transition) starts no
\* further pass and makes no store request.
C11_OnePassPerTransition ==
    [][(OnlineEvent /\ dbState = "open") =>
          IF isOnline
          THEN passes' = passes /\ faults' = faults
          ELSE lastSync' \in {"started", "rejected"}]_vars

\* C12: a record of the local store stays in it with the same id and the
\* same payload, its synced flag never goes from true to false, and the
\* markAsSynced of a pass changes nothing but the flag of the record it names.
C12_AppendOnlyLog ==
    [][/\ Len(workouts') >= Len(workouts)
       /\ \A i \in Ids(workouts) :
            /\ workouts'[i].payload = workouts[i].payload
            /\ workouts[i].synced => workouts'[i].synced
       /\ \A k \in Passes :
            (passes[k].pc = "sending" /\ passes'[k] # passes[k]) =>
               /\ Len(workouts') = Len(workouts)
               /\ \A i \in Ids(workouts) :
                    i # passes[k].pending[passes[k].i] => workouts'[i] = workouts[i]]_vars

\* A pass marked one record while another one stayed unsynced.
C12_Witness ==
    \E i, j \in Ids(workouts) :
        /\ workouts[i].synced
        /\ saves[workouts[i].payload].resp # "ok"
        /\ ~workouts[j].synced

\* ------------------------------------------------------ fair executions
\* The event loop runs every continuation that is ready; every fetch settles;
\* the backend does not refuse a submission for ever; SYNC_WORKOUTS messages
\* keep arriving.
Fairness ==
    /\ WF_vars(SyncMessage)
    /\ \A k \in Passes :
         /\ WF_vars(SyncResume(k))
         /\ WF_vars(SyncNext(k))
         /\ WF_vars(SyncSummary(k))
         /\ WF_vars(SyncSendOk(k) \/ SyncSendFail(k))
         /\ SF_vars(SyncSendOk(k))
    /\ \A s \in Saves : WF_vars(SaveSendOk(s) \/ SaveSendFail(s))

SpecLive == Spec /\ Fairness

\* A step of pass k, whichever its position.
PassStep(k) ==
    SyncResume(k) \/ SyncNext(k) \/ SyncSendOk(k) \/ SyncSendFail(k) \/ SyncSummary(k)

\* Only this much is assumed for the termination of a pass: its ready
\* continuation is run, and the fetch it waits for settles.
SpecPass == Spec /\ \A k \in Passes : WF_vars(PassStep(k))

\* Record i is in the store and not marked synced.
Unsynced(i) == i \in Ids(workouts) /\ ~workouts[i].synced

\* Record i is marked synced and the backend has accepted its payload.
Delivered(i) ==
    i \in Ids(workouts) /\ workouts[i].synced /\ accepted[workouts[i].payload] > 0

\* C13: when connectivity ends up online for good, every record stored with
\* synced = false is eventually accepted by the backend and marked synced.
C13_EventualDelivery ==
    (<>[]navOnline) => \A i \in Saves : Unsynced(i) ~> Delivered(i)

\* C14: once cacheExercises(L) has completed the catalog store holds exactly
\* one entry, named 'exercises', whose list is L, so that getCachedExercises
\* returns exactly L whatever the store held before; and getCachedExercises
\* returns the empty list when the store holds no entry.
C14_CatalogReplace ==
    /\ (ret.op = "cacheExercises" /\ ret.status = "resolved") =>
          /\ exerciseCache = {CatalogEntry(ret.arg)}
          /\ getCachedExercises(exerciseCache) = ret.arg
    /\ Cardinality(exerciseCache) <= 1
    /\ \A e \in exerciseCache : e.id = "exercises"
    /\ (ret.op = "getCachedExercises" /\ ret.status = "resolved") =>
          ret.value = IF exerciseCache = {} THEN <<>>
                      ELSE (CHOOSE e \in exerciseCache : TRUE).data

\* The lists of record ids a pass may have read from the store.
IdLists == {SelectSeq([i \in 1..Len(workouts) |-> i], LAMBDA i : i \in S) :
               S \in SUBSET Ids(workouts)}

\* The values of `passes` after a trigger: unchanged, or one pass started.
PassStarts ==
    {passes} \cup
    {[passes EXCEPT ![k] = [NoPass EXCEPT !.pc = "read", !.pending = q, !.startEmpty = b]] :
        k \in Passes, q \in IdLists, b \in BOOLEAN}

\* The message and the 'online' event can lead to the same value p of `passes`.
SameStart(p) ==
    (ENABLED (SyncMessage /\ passes' = p)) <=> (ENABLED (OnlineEvent /\ passes' = p))

\* C15 as stated: in every state in which the handlers exist, a SYNC_WORKOUTS
\* message starts the pass that an 'online' event would start.
C15_MessageEqualsReconnect ==
    dbState = "open" => \A p \in PassStarts : SameStart(p)

\* C15 amended: while the flag is online a SYNC_WORKOUTS message starts the
\* pass that an 'online' event would start; while the flag is offline the
\* message starts no pass, whereas an 'online' event sets the flag and starts one.
C15_MessageEqualsReconnectWhenOnline ==
    dbState = "open" =>
        IF isOnline
        THEN \A p \in PassStarts : SameStart(p)
        ELSE \A p \in PassStarts : (ENABLED (SyncMessage /\ passes' = p)) => p = passes

\* A message arrived while the flag was offline and records were pending: no
\* pass runs, and an 'online' event would start one.
C15_Witness ==
    /\ dbState = "open" /\ ~isOnline
    /\ lastSync = "offline" /\ timer # "fired"
    /\ AllIdle
    /\ getPendingWorkouts(workouts) # <<>>
    /\ ENABLED (OnlineEvent /\ passes' # passes)

\* C16 as stated: markAsSynced(id) for an id that is not in the store resolves
\* and leaves every stored record unchanged.
C16_AbsentIdResolves ==
    [][\A id \in CallIds :
         (MarkAsSynced(id) /\ id \notin Ids(workouts)) =>
            /\ ret'.status = "resolved"
            /\ workouts' = workouts]_vars

\* C16 amended: markAsSynced(id) for an id that is not in the store leaves
\* every stored record unchanged, and it resolves unless the store request
\* itself fails (this.db is null, or the get reports an error).
C16_AbsentIdIsNoOp ==
    [][\A id \in CallIds :
         (MarkAsSynced(id) /\ id \notin Ids(workouts)) =>
            /\ workouts' = workouts
            /\ ret'.status \in {"resolved", "rejected"}
            /\ ret'.status = "rejected" => (dbState # "open" \/ faults' > faults)]_vars

C16_Witness ==
    /\ ret.op = "markAsSynced"
    /\ ret.status = "resolved"
    /\ ret.arg \notin Ids(workouts)
    /\ workouts # <<>>

\* C17: a save called while the flag is online issues the submission before
\* it touches the store, whatever the state of the store: also when the
\* store could not be opened, or rejects its requests.
C17_StoreFailureKeepsSubmission ==
    [][\A s \in Saves :
         (saves[s].pc = "idle" /\ isOnline /\ saves'[s] # saves[s]) =>
            /\ saves'[s].pc = "sending"
            /\ saves'[s].net
            /\ workouts' = workouts /\ faults' = faults]_vars

\* The store could not be opened, and the submission of a save was accepted.
C17_Witness ==
    /\ dbState = "failed"
    /\ \E s \in Saves :
         saves[s].net /\ accepted[s] > 0 /\ saves[s].outcome = "error"

\* The record of save s is in the local store, or the backend has accepted it.
Held(s) == accepted[s] > 0 \/ \E i \in Ids(workouts) : workouts[i].payload = s

\* C18: whenever a saveWorkout call is suspended, its record is held by the
\* backend or by the local store, so that a termination of the process at
\* that point (which keeps the store and the backend as they are and drops
\* the suspended call with its request) loses nothing; and a save whose
\* submission failed and whose insert succeeded has its record in the store.
C18_NoLossOnTermination ==
    /\ \A s \in Saves : saves[s].pc = "sending" => Held(s)
    /\ \A s \in Saves :
         (saves[s].resp = "fail" /\ ~saves[s].storeErr) =>
             \E i \in Ids(workouts) : workouts[i].payload = s

\* C19: within one pass, when the submission of the i-th record of the list
\* is issued or in flight, the outcome of each of the i-1 records before it
\* is known and counted, and for each of them that the backend accepted
\* markAsSynced has completed: the record is marked, or the rejection of
\* markAsSynced was counted as a failure.
C19_SequentialSubmissions ==
    \A k \in Passes :
        passes[k].pc \in {"loop", "sending"} =>
            /\ passes[k].i \in 1..(Len(passes[k].pending) + 1)
            /\ passes[k].pc = "sending" => passes[k].i <= Len(passes[k].pending)
            /\ passes[k].synced + passes[k].failed = passes[k].i - 1
            /\ \A n \in 1..(passes[k].i - 1) :
                 passes[k].pending[n] \in passes[k].oks =>
                    (workouts[passes[k].pending[n]].synced \/ passes[k].failed > 0)

\* The second submission of a pass is in flight, the first record is marked.
C19_Witness ==
    \E k \in Passes :
        /\ passes[k].pc = "sending"
        /\ passes[k].i > 1
        /\ passes[k].synced = 1
        /\ workouts[passes[k].pending[1]].synced

\* The steps of pass k keep to the list it read when it started.
SnapshotStep(k) ==
    /\ (passes[k].pc = "idle" /\ passes'[k].pc # "idle") =>
          /\ passes'[k].pc = "read"
          /\ passes'[k].pending = getPendingWorkouts(workouts)
    /\ (passes[k].pc # "idle" /\ passes'[k].pc # "idle") =>
          passes'[k].pending = passes[k].pending
    /\ (passes[k].pc = "read" /\ passes'[k].pc # "read") =>
          IF passes[k].pending = <<>>
          THEN passes'[k].pc = "idle" /\ syncStatus'.kind = "allSynced"
          ELSE passes'[k].pc = "loop" /\ passes'[k].i = 1
    /\ (passes[k].pc = "loop" /\ passes'[k].pc = "sending") =>
          /\ passes'[k].i = passes[k].i
          /\ passes[k].i \in 1..Len(passes[k].pending)
    /\ (passes[k].pc = "sending" /\ passes'[k] # passes[k]) =>
          /\ passes'[k].pc = "loop"
          /\ passes'[k].i = passes[k].i + 1
    /\ (passes[k].pc = "loop" /\ passes'[k].pc = "idle") =>
          /\ passes[k].i = Len(passes[k].pending) + 1
          /\ passes[k].synced + passes[k].failed = Len(passes[k].pending)
          /\ syncStatus'.kind \in {"all", "partial"}
          /\ syncStatus'.synced = passes[k].synced
          /\ syncStatus'.failed = passes[k].failed

\* C20: a pass keeps the list its one getPendingWorkouts call returned; it
\* submits the records of that list in order, each once, and no record saved
\* while it runs; when the list is exhausted it ends with the summary of its
\* counts; and every pass that has read its list does end (no pass stays
\* active for ever).
C20_SnapshotPassTerminates ==
    /\ [][\A k \in Passes : SnapshotStep(k)]_vars
    /\ \A k \in Passes : []<>(passes[k].pc = "idle")

\* A pass has gone through its list while a record saved after its start,
\* which is not in the list, waits unsynced in the store.
C20_Witness ==
    \E k \in Passes :
        /\ passes[k].pc = "loop"
        /\ passes[k].pending # <<>>
        /\ passes[k].i > Len(passes[k].pending)
        /\ \E i \in Ids(workouts) :
             /\ ~workouts[i].synced
             /\ \A n \in 1..Len(passes[k].pending) : passes[k].pending[n] < i

\* C21: every stored record with synced = true has had a submission accepted
\* by the backend, whether the flag was set by saveWorkout or by a pass.
C21_SyncedImpliesAccepted ==
    \A i \in Ids(workouts) : workouts[i].synced => accepted[workouts[i].payload] > 0

\* One record was stored synced by its save, another was marked by a pass.
C21_Witness ==
    \E i, j \in Ids(workouts) :
        /\ workouts[i].synced /\ saves[workouts[i].payload].outcome = "synced"
        /\ workouts[j].synced /\ saves[workouts[j].payload].outcome \in {"offline", "local"}
        /\ saves[workouts[j].payload].resp # "ok"

\* C22: isOnline equals the status the platform announced last (navOnline:
\* the initial status, then the status of the latest 'online' or 'offline'
\* event), also while the store is being opened or after it failed to open.
C22_FlagIsCurrent == isOnline = navOnline

\* C23 as stated: a pass issues a submission only while the flag is online.
C23_NoSubmissionWhileOffline ==
    [][\A k \in Passes :
         (passes[k].pc = "loop" /\ passes'[k].pc = "sending") => isOnline]_vars

\* C23 amended: a pass is started only by a call that finds the flag online;
\* the flag is read at that moment alone.
C23_NoPassStartedOffline ==
    [][\A k \in Passes :
         (passes[k].pc = "idle" /\ passes'[k].pc # "idle") => isOnline']_vars

\* The flag went offline after a pass had dealt with its first record; a
\* record remains and its submission is about to be issued.
C23_Witness ==
    \E k \in Passes :
        /\ passes[k].pc = "loop"
        /\ passes[k].i > 1
        /\ passes[k].i <= Len(passes[k].pending)
        /\ ~isOnline
        /\ ENABLED SyncNext(k)

\* The main screen is shown, the submit handler exists or a save was made.
Enabled24 ==
    \/ app.screen = "mainAppScreen"
    \/ app.handler
    \/ \E s \in Saves : saves[s].pc # "idle"

\* C24: the main screen, the submit handler and any creation of a record
\* exist only after checkUserAccess answered approved = true; when the call
\* failed, was refused, or could not be made because the flag was offline at
\* startup (no request issued), the access-denied screen is shown, and it
\* stays: nothing enables record creation later in the session.
C24_ApprovedBeforeCreation ==
    /\ [](Enabled24 => (app.answer = "approved" /\ app.net))
    /\ []((app.pc = "done" /\ app.answer # "approved") =>
             (app.screen = "accessDeniedScreen" /\ ~app.handler))
    /\ [](app.answer = "offline" => ~app.net)
    /\ [][app.screen = "accessDeniedScreen" => app' = app]_vars

\* The page was offline at startup and shows the access-denied screen; the
\* session went on, the store opened and connectivity came back.
C24_Witness ==
    /\ app.answer = "offline" /\ app.screen = "accessDeniedScreen"
    /\ ~app.net /\ ~app.handler
    /\ isOnline /\ dbState = "open"

\* C25: when a save ends having inserted its record, the outcome it reports
\* says synced exactly when the inserted record has synced = true.
C25_OutcomeAgreesWithStore ==
    [][\A s \in Saves :
         (saves[s].pc # "done" /\ saves'[s].pc = "done"
            /\ Len(workouts') > Len(workouts)) =>
            /\ workouts'[Len(workouts')].payload = s
            /\ (saves'[s].outcome = "synced") <=> workouts'[Len(workouts')].synced
            /\ (saves'[s].outcome \in {"offline", "local"})
                  <=> ~workouts'[Len(workouts')].synced]_vars

\* C26: whenever no save and no pass is in progress, no stored record whose
\* submission the backend accepted is left with synced = false.
C26_AcknowledgedNeverPending ==
    (AllIdle /\ \A s \in Saves : saves[s].pc # "sending") =>
        \A i \in Ids(workouts) :
            accepted[workouts[i].payload] > 0 => workouts[i].synced

====
